---- MODULE Spec2Model ----
(***************************************************************************)
(* DuetLapse.py: the poll loop, the print-lifecycle state machine, the     *)
(* capture triggers of oneInterval and the forced-pause protocol.           *)
(*                                                                         *)
(* Z coordinates are integers (one unit = one layer height), times are     *)
(* integers (one unit = the sleep of one loop iteration).  The printer, the *)
(* camera command and ffmpeg are the environment: every value they return  *)
(* is an input drawn in the action that makes the call.                    *)
(***************************************************************************)
EXTENDS Integers, Sequences, FiniteSets, TLC

VARIABLES
    pc,             \* "init" before init() ran, "loop" in the while(1), "exit" after exit()
    exitCode,       \* the exit status: 2 on rejection, 0 after postProcess, 1 after an
                    \* uncaught exception; -1 while running
    initStage,      \* where init() stopped: "combination", "requisite", "connect" or "ok"
    camera, detect, pause, movehead, seconds,   \* the parsed arguments (globals of init)
    zo, frame, printerState, timePriorPhoto, alreadyPaused,   \* the globals of lines 37-41
    now,            \* time.time()
    log,            \* the external calls made by the most recent loop iteration, in order
    shots,          \* the file names handed to the camera command, in order
    files,          \* the image files that exist under /tmp/DuetLapse
    assembled,      \* how many times ffmpeg was invoked
    zs,             \* the Z values returned by getCoords at line 213, in order
    last            \* what the most recent loop iteration started from and was given

vars == <<pc, exitCode, initStage, camera, detect, pause, movehead, seconds, zo,
          frame, printerState, timePriorPhoto, alreadyPaused, now, log, shots, files,
          assembled, zs, last>>

-----------------------------------------------------------------------------
(* Bounds of the model.                                                    *)
\* getCoords()['Z'] is in 0..MaxZ.
MaxZ == 2
\* -seconds is in 0..MaxSeconds.
MaxSeconds == 1
\* At most MaxGap time units pass between line 206 of the layer photo and
\* line 221 of the same call of oneInterval.
MaxGap == 2
\* time.time() when the loop starts; timePriorPhoto starts at 0, long before.
StartTime == 10
\* The loop is followed until time.time() = StartTime + Horizon.
Horizon == 4
\* At most MaxFailures camera commands fail to write their file.
MaxFailures == 1

(* time.sleep(0.37) at line 251, in time units.                            *)
SleepUnits == 1

-----------------------------------------------------------------------------
(* Python's `sub in s` on strings.                                         *)
Contains(sub, s) ==
    \E i \in 1..(Len(s) - Len(sub) + 1) : SubSeq(s, i, i + Len(sub) - 1) = sub

(* The values the arguments can take (argparse choices, lines 52-56).      *)
CameraChoices == {"usb", "pi", "web", "dslr"}
DetectChoices == {"layer", "pause", "none"}
PauseChoices == {"yes", "no"}
Heads == {<<0, 0>>, <<10, 10>>}
SecondsChoices == 0..MaxSeconds

(* The strings printer.getStatus() returns.                                *)
Statuses == {"idle", "processing", "paused", "M"}

(* "{0:08d}".format(n)                                                     *)
RECURSIVE ZeroPad(_, _)
ZeroPad(s, width) == IF Len(s) < width THEN ZeroPad("0" \o s, width) ELSE s
Format08d(n) == ZeroPad(ToString(n), 8)

(* "{0:4.2f}".format(x) for the whole numbers the model uses.              *)
Format42f(x) == ToString(x) \o ".00"

FileName(n) == "/tmp/DuetLapse/IMG" \o Format08d(n) \o ".jpeg"

(* One external call: printer.gCode(arg), printer.getStatus(),             *)
(* printer.getCoords(), the camera command writing arg, ffmpeg.            *)
Call(op, arg) == [op |-> op, arg |-> arg]
gCode(arg) == Call("gCode", arg)
MoveCommand(head) == "G1 X" \o Format42f(head[1]) \o " Y" \o Format42f(head[2])

-----------------------------------------------------------------------------
(* The globals a loop iteration works on, as one record.  raised tells     *)
(* that an exception is propagating: what follows in the iteration is not  *)
(* executed.  calls, fired and held observe the iteration: the calls of    *)
(* checkForcePause, the triggers that fired, and alreadyPaused at each     *)
(* call of onePhoto.                                                       *)
Globals ==
    [zo |-> zo, frame |-> frame, timePriorPhoto |-> timePriorPhoto,
     alreadyPaused |-> alreadyPaused, log |-> <<>>, shots |-> shots,
     files |-> files, raised |-> FALSE, calls |-> 0, fired |-> {}, held |-> <<>>]

(* checkForcePause(), lines 169-182.  calls counts the invocations.        *)
checkForcePauseNoGuard(g) ==
    LET c == [g EXCEPT !.calls = @ + 1] IN
    IF ~Contains("yes", pause) THEN c
    ELSE LET p == [c EXCEPT !.log = @ \o <<gCode("M25"), gCode("M400")>>,
                            !.alreadyPaused = TRUE]
         IN  IF movehead # <<0, 0>>
             THEN [p EXCEPT !.log = @ \o <<gCode(MoveCommand(movehead)), gCode("M400")>>]
             ELSE p

checkForcePause(g) ==
    LET c == [g EXCEPT !.calls = @ + 1] IN
    IF g.alreadyPaused THEN c
    ELSE IF ~Contains("yes", pause) THEN c
    ELSE LET p == [c EXCEPT !.log = @ \o <<gCode("M25"), gCode("M400")>>,
                            !.alreadyPaused = TRUE]
         IN  IF movehead # <<0, 0>>
             THEN [p EXCEPT !.log = @ \o <<gCode(MoveCommand(movehead)), gCode("M400")>>]
             ELSE p

(* unPause(), lines 184-189.                                               *)
unPause(g) ==
    IF g.alreadyPaused
    THEN [g EXCEPT !.log = @ \o <<gCode("M24")>>, !.alreadyPaused = FALSE]
    ELSE g

(* Lines 197-202 of onePhoto(): cmd is assigned when camera holds 'usb',   *)
(* 'pi' or 'web'; for any other camera it is not bound at line 204.        *)
CmdBound ==
    Contains("usb", camera) \/ Contains("pi", camera) \/ Contains("web", camera)

(* onePhoto(), lines 191-206.  t is time.time() at line 206; ok tells      *)
(* whether the camera command wrote the file (its exit status is not read).*)
(* The command is one external call, given fn, whichever of the three      *)
(* command lines it is.  With cmd unbound line 204 raises UnboundLocalError*)
(* after frame was incremented and before any command runs.                *)
onePhoto(g, t, ok) ==
    LET n == g.frame + 1
        fn == FileName(n)
    IN  IF CmdBound
        THEN [g EXCEPT !.frame = n,
                       !.log = @ \o <<Call("capture", fn)>>,
                       !.shots = Append(@, fn),
                       !.files = IF ok THEN @ \cup {fn} ELSE @,
                       !.held = Append(@, g.alreadyPaused),
                       !.timePriorPhoto = t]
        ELSE [g EXCEPT !.frame = n,
                       !.held = Append(@, g.alreadyPaused),
                       !.raised = TRUE]

(* The tests of oneInterval, lines 214, 222 and 227.                       *)
LayerFires(zn, zold) == ~(zn = zold)

IntervalFiresAtEqual(secs, elap) == (secs # 0) /\ (secs <= elap)

IntervalFires(secs, elap) == (secs # 0) /\ (secs < elap)

PauseDetected(status) == Contains("paused", status)

(* oneInterval(), lines 209-231.  in.zn is the Z of getCoords at line 213, *)
(* in.t1 the clock when the layer photo is taken, in.t2 the clock at line  *)
(* 221 and after, in.status2 the status read at line 227, in.fails the     *)
(* captures of this call (first, second, third) whose command fails.       *)
Ok(g, in) == (g.frame - in.frame0 + 1) \notin in.fails

LayerPartPhotoFirst(g, in) ==
    IF Contains("layer", detect)
    THEN LET q == [g EXCEPT !.log = @ \o <<Call("getCoords", "")>>] IN
         IF LayerFires(in.zn, q.zo)
         THEN LET c == [q EXCEPT !.log = @ \o <<Call("getCoords", ""),
                                                Call("getCoords", ""),
                                                Call("getCoords", "")>>,
                                 !.fired = @ \cup {"layer"}]
                  f == onePhoto(c, in.t1, Ok(c, in))
              IN  IF f.raised THEN f ELSE [checkForcePause(f) EXCEPT !.zo = in.zn]
         ELSE [q EXCEPT !.zo = in.zn]
    ELSE g

LayerPart(g, in) ==
    IF Contains("layer", detect)
    THEN LET q == [g EXCEPT !.log = @ \o <<Call("getCoords", "")>>] IN
         IF LayerFires(in.zn, q.zo)
         THEN LET p == checkForcePause(q)
                  c == [p EXCEPT !.log = @ \o <<Call("getCoords", ""),
                                                Call("getCoords", ""),
                                                Call("getCoords", "")>>,
                                 !.fired = @ \cup {"layer"}]
                  f == onePhoto(c, in.t1, Ok(c, in))
              IN  IF f.raised THEN f ELSE [f EXCEPT !.zo = in.zn]
         ELSE [q EXCEPT !.zo = in.zn]
    ELSE g

IntervalPart(g, in) ==
    LET elap == in.t2 - g.timePriorPhoto IN
    IF g.raised THEN g
    ELSE IF IntervalFires(seconds, elap)
    THEN LET p == checkForcePause(g)
             c == [p EXCEPT !.fired = @ \cup {"interval"}]
         IN  onePhoto(c, in.t2, Ok(c, in))
    ELSE g

PausePart(g, in) ==
    IF g.raised THEN g
    ELSE IF Contains("pause", detect)
    THEN LET q == [g EXCEPT !.log = @ \o <<Call("getStatus", "")>>] IN
         IF PauseDetected(in.status2)
         THEN LET c == [q EXCEPT !.fired = @ \cup {"pause"}]
              IN  onePhoto(c, in.t2, Ok(c, in))
         ELSE q
    ELSE g

oneInterval(g, in) ==
    LET r == PausePart(IntervalPart(LayerPart(g, in), in), in)
    IN  IF r.raised THEN r ELSE unPause(r)

-----------------------------------------------------------------------------
(* What rm -r at line 164 may find under /tmp/DuetLapse: nothing, or the   *)
(* first frame of a past run.                                              *)
PastRuns == {{}, {FileName(1)}}

(* The state at line 248, before init() runs: the arguments are whatever   *)
(* the command line gave, the globals are as lines 37-41 set them.         *)
NoTick ==
    [state0 |-> -1, status |-> "", zn |-> -1, status2 |-> "", t1 |-> 0,
     frame0 |-> 0, zo0 |-> 0, tpp0 |-> 0, prevZ |-> -1, raised |-> FALSE,
     calls |-> 0, fired |-> {}, held |-> <<>>]

Init ==
    /\ pc = "init"
    /\ exitCode = -1
    /\ initStage = ""
    /\ camera \in CameraChoices
    /\ detect \in DetectChoices
    /\ pause \in PauseChoices
    /\ movehead \in Heads
    /\ seconds \in SecondsChoices
    /\ zo = 0
    /\ frame = 0
    /\ printerState = 0
    /\ timePriorPhoto = 0
    /\ alreadyPaused = FALSE
    /\ now = StartTime
    /\ log = <<>>
    /\ shots = <<>>
    /\ files \in PastRuns
    /\ assembled = 0
    /\ zs = <<>>
    /\ last = NoTick

(* The test of line 71, which looks for 'dlsr' in camera.                  *)
CameraNotSupported == Contains("dlsr", camera)

(* The two invalid combinations of init(), lines 80 and 84.                *)
MoveheadNeedsPauseLoose ==
    (~(movehead = <<0, 0>>)) /\ ((~Contains("yes", pause)) \/ (~Contains("pause", detect)))

MoveheadNeedsPause ==
    (~(movehead = <<0, 0>>)) /\ ((~Contains("yes", pause)) /\ (~Contains("pause", detect)))

PauseAndDetectPause == Contains("yes", pause) /\ Contains("pause", detect)

(* init(), lines 48-167.  requisiteOk: the whereis checks of lines 115-136 *)
(* found the commands; connectOk: printerType() answered at line 143.      *)
(* An accepted run ends with lines 164-165, which empty /tmp/DuetLapse.     *)
init ==
    /\ pc = "init"
    /\ \E requisiteOk \in BOOLEAN, connectOk \in BOOLEAN :
          LET stage == IF CameraNotSupported THEN "camera"
                       ELSE IF MoveheadNeedsPause \/ PauseAndDetectPause THEN "combination"
                       ELSE IF ~requisiteOk THEN "requisite"
                       ELSE IF ~connectOk THEN "connect"
                       ELSE "ok"
          IN  /\ (stage \in {"camera", "combination"}) => (requisiteOk /\ connectOk)
              /\ (stage = "requisite") => connectOk
              /\ initStage' = stage
              /\ pc' = IF stage = "ok" THEN "loop" ELSE "exit"
              /\ exitCode' = IF stage = "ok" THEN -1 ELSE 2
              /\ files' = IF stage = "ok" THEN {} ELSE files
    /\ UNCHANGED <<camera, detect, pause, movehead, seconds, zo, frame, printerState,
                   timePriorPhoto, alreadyPaused, now, log, shots, assembled, zs, last>>

-----------------------------------------------------------------------------
(* The tests of the main loop on the status, lines 255 and 262.            *)
PrintStartSensedAnyCase(status) ==
    Contains("processing", status) \/ Contains("M", status) \/ Contains("m", status)
    \/ Contains("i", status)

PrintStartSensed(status) == Contains("processing", status) \/ Contains("M", status)

PrintEndSensed(status) == Contains("idle", status)

(* What an iteration leaves in last; status2 is kept only when line 227    *)
(* was reached.                                                            *)
Tick(state0, status, in, g) ==
    [state0 |-> state0, status |-> status, zn |-> in.zn,
     status2 |-> IF Len(SelectSeq(g.log, LAMBDA e : e.op = "getStatus")) = 2
                 THEN in.status2 ELSE "",
     t1 |-> in.t1, frame0 |-> frame, zo0 |-> zo, tpp0 |-> timePriorPhoto,
     prevZ |-> IF last.state0 = 1 THEN last.zn ELSE -1, raised |-> g.raised,
     calls |-> g.calls, fired |-> g.fired, held |-> g.held]

(* The sets of captures of one iteration that may fail when k more        *)
(* failures are allowed; an iteration makes at most three captures.       *)
FailChoices(k) == {F \in SUBSET (1..3) : Cardinality(F) <= k}

NoInput(t) == [zn |-> -1, t1 |-> t, t2 |-> t, status2 |-> "", fails |-> {}, frame0 |-> frame]

(* Lines 250-258: one iteration of the loop with printerState = 0.         *)
LoopIdleBeforePrintReadsZ ==
    /\ pc = "loop"
    /\ printerState = 0
    /\ \E dS \in {SleepUnits}, status \in Statuses, zn \in 0..MaxZ :
          /\ now + dS <= StartTime + Horizon
          /\ now' = now + dS
          /\ printerState' = IF PrintStartSensed(status) THEN 1 ELSE 0
          /\ zo' = IF PrintStartSensed(status) THEN zn ELSE zo
          /\ log' = <<Call("getStatus", "")>>
          /\ last' = Tick(0, status, NoInput(now + dS), Globals)
    /\ UNCHANGED <<pc, exitCode, initStage, camera, detect, pause, movehead, seconds,
                   frame, timePriorPhoto, alreadyPaused, shots, files, assembled, zs>>

LoopIdleBeforePrint ==
    /\ pc = "loop"
    /\ printerState = 0
    /\ \E dS \in {SleepUnits}, status \in Statuses :
          /\ now + dS <= StartTime + Horizon
          /\ now' = now + dS
          /\ printerState' = IF PrintStartSensed(status) THEN 1 ELSE 0
          /\ log' = <<Call("getStatus", "")>>
          /\ last' = Tick(0, status, NoInput(now + dS), Globals)
    /\ UNCHANGED <<pc, exitCode, initStage, camera, detect, pause, movehead, seconds, zo,
                   frame, timePriorPhoto, alreadyPaused, shots, files, assembled, zs>>

(* Lines 250-252 and 260-263: one iteration with printerState = 1.  An    *)
(* exception raised in oneInterval is caught nowhere: the iteration stops  *)
(* there, before line 262, and the interpreter exits with status 1.  The   *)
(* clock does not go past the photo that raised, and the commands that     *)
(* fail are among those the iteration runs (gAll: the iteration when none  *)
(* fails).                                                                 *)
LoopPrinting ==
    /\ pc = "loop"
    /\ printerState = 1
    /\ \E dS \in {SleepUnits},
          zn \in (IF Contains("layer", detect) THEN 0..MaxZ ELSE {-1}),
          status2 \in (IF Contains("pause", detect) THEN Statuses ELSE {""}) :
       \E dG \in (IF Contains("layer", detect) /\ LayerFires(zn, zo) /\ CmdBound
                  THEN 0..MaxGap ELSE {0}) :
          LET in0 == [zn |-> zn, t1 |-> now + dS, t2 |-> now + dS + dG,
                      status2 |-> status2, fails |-> {}, frame0 |-> frame]
              g0 == [Globals EXCEPT !.log = <<Call("getStatus", "")>>]
          IN  /\ in0.t2 <= StartTime + Horizon
              /\ \E gAll \in {oneInterval(g0, in0)} :
                 \E fails \in {F \in FailChoices(MaxFailures - (Len(shots) - Cardinality(files))) :
                                  F \subseteq 1..(Len(gAll.shots) - Len(shots))} :
                 \E in \in {[in0 EXCEPT !.fails = fails]} :
                 \E g \in {IF fails = {} THEN gAll ELSE oneInterval(g0, in)} :
                 \E status \in Statuses :
                   /\ now' = in.t2
                   /\ zo' = g.zo
                   /\ frame' = g.frame
                   /\ timePriorPhoto' = g.timePriorPhoto
                   /\ alreadyPaused' = g.alreadyPaused
                   /\ log' = g.log
                   /\ shots' = g.shots
                   /\ files' = g.files
                   /\ zs' = IF zn = -1 THEN zs ELSE Append(zs, zn)
                   /\ printerState' = IF g.raised THEN printerState
                                      ELSE IF PrintEndSensed(status) THEN 2 ELSE 1
                   /\ pc' = IF g.raised THEN "exit" ELSE pc
                   /\ exitCode' = IF g.raised THEN 1 ELSE exitCode
                   /\ last' = Tick(1, status, in, g)
    /\ UNCHANGED <<initStage, camera, detect, pause, movehead, seconds, assembled>>

(* postProcess(), lines 233-242, on the globals of the loop.  The log      *)
(* starts with the getStatus of line 252, which the iteration made first.  *)
postProcessReadsCoords ==
    /\ assembled' = assembled + 1
    /\ log' = <<Call("getStatus", ""), Call("getCoords", ""),
                Call("ffmpeg", "/tmp/DuetLapse/IMG%08d.jpeg")>>
    /\ pc' = "exit"
    /\ exitCode' = 0

postProcess ==
    /\ assembled' = assembled + 1
    /\ log' = <<Call("getStatus", ""), Call("ffmpeg", "/tmp/DuetLapse/IMG%08d.jpeg")>>
    /\ pc' = "exit"
    /\ exitCode' = 0

(* Lines 250-252 and 265-266: one iteration with printerState = 2.         *)
LoopAfterPrint ==
    /\ pc = "loop"
    /\ printerState = 2
    /\ \E dS \in {SleepUnits}, status \in Statuses :
          /\ now' = now + dS
          /\ last' = Tick(2, status, NoInput(now + dS), Globals)
    /\ postProcess
    /\ UNCHANGED <<initStage, camera, detect, pause, movehead, seconds, zo, frame,
                   printerState, timePriorPhoto, alreadyPaused, shots, files, zs>>

Next ==
    \/ init
    \/ LoopIdleBeforePrint
    \/ LoopPrinting
    \/ LoopAfterPrint

Spec == Init /\ [][Next]_vars

(* The loop is one thread and every external call returns: after the       *)
(* iteration that set printerState = 2, the next iteration does run.       *)
FairSpec == Init /\ [][Next]_vars /\ WF_vars(LoopAfterPrint)

-----------------------------------------------------------------------------
(* What the properties below read off the log of an iteration.             *)
Captures(l) == Len(SelectSeq(l, LAMBDA e : e.op = "capture"))
Commands(l) == SelectSeq(l, LAMBDA e : e.op \in {"gCode", "capture"})
GCodes(l) == SelectSeq(l, LAMBDA e : e.op = "gCode")
CountOf(l, c) == Len(SelectSeq(l, LAMBDA e : e = c))
HeadSet == movehead # <<0, 0>>
PrintingTick == last.state0 = 1

-----------------------------------------------------------------------------
(* C1: with detect = layer and seconds = 0, a Printing sample makes one    *)
(* capture when its Z differs from the Z of the preceding Printing sample  *)
(* and none when it is equal, and zo is the sample's Z after every sample. *)
C1_LayerTrigger ==
    (detect = "layer" /\ seconds = 0 /\ PrintingTick) =>
        /\ zo = last.zn
        /\ frame - last.frame0 = Captures(log)
        /\ (last.prevZ # -1) =>
              Captures(log) = (IF last.zn # last.prevZ THEN 1 ELSE 0)

(* C2: with detect = layer and seconds = 0, the Printing samples           *)
(* Z = [0.2, 0.2, 0.4] (one unit = 0.2) give exactly one capture, frame 1, *)
(* taken on the third sample; the first sample takes none.  Stated for the *)
(* default camera.                                                         *)
C2_ScenarioA ==
    (camera = "usb" /\ detect = "layer" /\ seconds = 0 /\ zs = <<1, 1, 2>>) =>
        /\ frame = 1
        /\ shots = <<FileName(1)>>
        /\ last.frame0 = 0

(* C3: with detect = none and seconds = T > 0 the interval trigger fires   *)
(* on a Printing sample exactly when now - timePriorPhoto > T, and makes   *)
(* one capture unless the capture raises, so a capture is more than T      *)
(* after the one before it; in every mode timePriorPhoto is the clock of   *)
(* the most recent capture, whichever trigger made it.                     *)
C3_IntervalTrigger ==
    /\ (detect = "none" /\ seconds > 0 /\ PrintingTick) =>
          /\ ("interval" \in last.fired) <=> (now - last.tpp0 > seconds)
          /\ Captures(log) = (IF "interval" \in last.fired /\ ~last.raised THEN 1 ELSE 0)
          /\ (Captures(log) = 1) => (timePriorPhoto - last.tpp0 > seconds)
    /\ (PrintingTick /\ Captures(log) > 0) =>
          timePriorPhoto = (IF last.fired = {"layer"} THEN last.t1 ELSE now)

C3_Witness ==
    /\ detect = "none" /\ seconds > 0 /\ PrintingTick
    /\ last.frame0 >= 1 /\ frame = last.frame0 + 1
    /\ now - last.tpp0 = seconds + 1
    /\ timePriorPhoto = now

(* C4: with detect = layer and seconds = T > 0, a Printing sample whose Z  *)
(* changed and that comes more than T after the last capture makes two     *)
(* captures, one for the layer trigger and one for the interval trigger.   *)
(* Stated for the default camera.                                          *)
C4_BothTriggersFire ==
    (/\ camera = "usb" /\ detect = "layer" /\ seconds > 0 /\ PrintingTick
     /\ last.prevZ # -1 /\ last.zn # last.prevZ
     /\ last.t1 - last.tpp0 > seconds) =>
        Captures(log) = 2

(* C5: checkForcePause called once or more in an iteration sends M25 once  *)
(* and the move once when a head target is set (never twice); with         *)
(* pause = no it sends no command and alreadyPaused stays false.           *)
C5_PauseIdempotent ==
    PrintingTick =>
        /\ (pause = "yes" /\ last.calls >= 1) =>
              /\ CountOf(log, gCode("M25")) = 1
              /\ Len(SelectSeq(log, LAMBDA e : Contains("G1", e.arg)))
                    = (IF HeadSet THEN 1 ELSE 0)
        /\ (pause # "yes") => (GCodes(log) = <<>> /\ ~alreadyPaused)

C5_Witness ==
    /\ PrintingTick /\ pause = "yes" /\ HeadSet
    /\ last.calls = 2
    /\ CountOf(log, gCode("M25")) = 1

(* C6: with pause = yes, an iteration on which a trigger fires sends       *)
(* M25, M400, the move G1 and M400 (the last two only when a head target   *)
(* is set), then takes its captures, then sends M24, and nothing else.     *)
C6_PauseMoveCaptureResume ==
    (pause = "yes" /\ PrintingTick /\ last.fired # {}) =>
        Commands(log) =
            <<gCode("M25"), gCode("M400")>>
            \o (IF movehead = <<10, 10>>
                THEN <<gCode("G1 X10.00 Y10.00"), gCode("M400")>>
                ELSE <<>>)
            \o [i \in 1..(frame - last.frame0) |->
                    Call("capture", FileName(last.frame0 + i))]
            \o <<gCode("M24")>>

(* C7: frame starts at 0 and counts the captures; the frames written by    *)
(* the run are exactly IMG00000001 .. IMG<frame>, no gap and none twice.   *)
(* Stated for the default camera.                                          *)
C7_FramesContiguous ==
    /\ (pc = "init") => frame = 0
    /\ (camera = "usb" /\ initStage = "ok") =>
          /\ frame = Len(shots)
          /\ shots = [i \in 1..frame |-> FileName(i)]
          /\ files = {FileName(i) : i \in 1..frame}

(* C8: printerState goes 0 -> 1 on a processing status and 1 -> 2 on an    *)
(* idle status polled while printing; ffmpeg is invoked once, by the       *)
(* iteration that starts in state 2, also with no frame captured, and      *)
(* never while printerState is 0 or 1.                                     *)
C8_Lifecycle ==
    /\ (last.state0 = 0) =>
          printerState = (IF last.status \in {"processing", "M"} THEN 1 ELSE 0)
    /\ (last.state0 = 1) =>
          printerState = (IF last.status = "idle" THEN 2 ELSE 1)
    /\ (last.state0 = 2) =>
          /\ assembled = 1 /\ pc = "exit" /\ exitCode = 0
          /\ CountOf(log, Call("ffmpeg", "/tmp/DuetLapse/IMG%08d.jpeg")) = 1
    /\ (last.state0 # 2) => (assembled = 0 /\ \A i \in 1..Len(log) : log[i].op # "ffmpeg")
    /\ (printerState \in {0, 1}) => assembled = 0

(* C9: init() rejects the arguments, with exit(2) and before the loop      *)
(* runs, exactly when (a head target is set, pause is not yes and detect   *)
(* is not pause) or (pause is yes and detect is pause).                    *)
C9_Validation ==
    (pc # "init") =>
        /\ (initStage = "combination") <=>
              \/ (movehead # <<0, 0>> /\ pause # "yes" /\ detect # "pause")
              \/ (pause = "yes" /\ detect = "pause")
        /\ (initStage = "combination") =>
              (pc = "exit" /\ exitCode = 2 /\ last.state0 = -1 /\ log = <<>>)

C9_Witness ==
    /\ pc = "exit" /\ exitCode = 2 /\ initStage = "combination"
    /\ movehead # <<0, 0>> /\ pause = "no" /\ detect = "layer"

(* C10: with detect = pause, an iteration that finds the printer paused    *)
(* takes a photo and then sends the resume command M24.  Stated for the    *)
(* default camera.                                                         *)
C10_ResumeAfterDetectedPause ==
    (camera = "usb" /\ detect = "pause" /\ PrintingTick /\ last.status2 = "paused") =>
        \E i, j \in 1..Len(log) :
            /\ i < j
            /\ log[i].op = "capture"
            /\ log[j] = gCode("M24")

(* C11: with detect = pause and a head target set, the move to the target  *)
(* is sent before the capture of a detected pause.  Stated for the default *)
(* camera.                                                                 *)
C11_MoveBeforeDetectedPauseCapture ==
    (camera = "usb" /\ detect = "pause" /\ movehead = <<10, 10>> /\ PrintingTick
        /\ "pause" \in last.fired) =>
        \E i, j \in 1..Len(log) :
            /\ i < j
            /\ log[i] = gCode("G1 X10.00 Y10.00")
            /\ log[j].op = "capture"

(* C12: a capture whose file was not produced ends the run: no capture     *)
(* follows it and ffmpeg is not invoked.                                   *)
C12_CaptureFailureFatal ==
    \A i \in 1..Len(shots) :
        (shots[i] \notin files) => (i = Len(shots) /\ assembled = 0)

(* C13: with detect = pause, every Printing iteration whose status at line *)
(* 227 is paused takes one pause capture, whatever was captured before,    *)
(* and an iteration whose status is not paused takes none.                 *)
C13_PauseTriggerEveryTick ==
    (detect = "pause" /\ PrintingTick) =>
        /\ ("pause" \in last.fired) <=> (last.status2 = "paused")
        /\ Captures(log) = (IF "interval" \in last.fired THEN 1 ELSE 0)
                         + (IF last.status2 = "paused" THEN 1 ELSE 0)
        /\ frame = last.frame0 + Captures(log)

(* C14: alreadyPaused is false whenever the loop takes a status sample;    *)
(* an iteration that sends M25 sends exactly one M24 after it, as its last *)
(* call, and no iteration sends M24 without M25 before it.                 *)
C14_PauseReleasedEachTick ==
    /\ ~alreadyPaused
    /\ CountOf(log, gCode("M25")) <= 1
    /\ CountOf(log, gCode("M24")) = CountOf(log, gCode("M25"))
    /\ \A j \in 1..Len(log) :
          (log[j] = gCode("M24")) =>
              /\ j = Len(log)
              /\ \E i \in 1..(j - 1) : log[i] = gCode("M25")

(* C15: with pause = yes every capture is taken while alreadyPaused is     *)
(* true, after M25, M400 and (with a head target) G1, M400 were sent in    *)
(* the same iteration and before any M24.                                  *)
C15_CaptureWhilePaused ==
    (pause = "yes" /\ PrintingTick) =>
        /\ Len(last.held) = Captures(log) + (IF last.raised THEN 1 ELSE 0)
        /\ \A k \in 1..Len(last.held) : last.held[k]
        /\ \A i \in 1..Len(log) :
              (log[i].op = "capture") =>
                  GCodes(SubSeq(log, 1, i - 1)) =
                      <<gCode("M25"), gCode("M400")>>
                      \o (IF movehead = <<10, 10>>
                          THEN <<gCode("G1 X10.00 Y10.00"), gCode("M400")>>
                          ELSE <<>>)

C15_Witness ==
    /\ pause = "yes" /\ movehead = <<10, 10>> /\ PrintingTick
    /\ last.held = <<TRUE, TRUE>>
    /\ Captures(log) = 2

(* C16 as claimed: once printerState is 2 no status or coordinate query is *)
(* made before ffmpeg is invoked.                                          *)
C16_NoQueryAfterFinished ==
    (last.state0 = 2) =>
        \A i \in 1..Len(log) : log[i].op \notin {"getStatus", "getCoords"}

(* C16 as amended: the iteration that starts with printerState = 2 makes   *)
(* exactly one status query (line 252), whose result nothing reads, then   *)
(* invokes ffmpeg; it makes no coordinate query, no capture and sends no   *)
(* printer command.                                                        *)
C16_OneUnusedStatusQuery ==
    (last.state0 = 2) =>
        /\ log = <<Call("getStatus", ""), Call("ffmpeg", "/tmp/DuetLapse/IMG%08d.jpeg")>>
        /\ frame = last.frame0 /\ zo = last.zo0 /\ timePriorPhoto = last.tpp0
        /\ printerState = 2 /\ pc = "exit" /\ exitCode = 0

C16_Witness ==
    /\ last.state0 = 2 /\ last.status = "processing"
    /\ pc = "exit" /\ assembled = 1
    /\ log[1] = Call("getStatus", "")

(* C17: printerState starts at 0 and changes only by 0 -> 1 and 1 -> 2; an *)
(* idle status polled in state 0 leaves it 0, and state 2 is never left.   *)
C17_OneDirection ==
    /\ printerState = 0
    /\ [][/\ \/ printerState' = printerState
             \/ (printerState = 0 /\ printerState' = 1)
             \/ (printerState = 1 /\ printerState' = 2)
          /\ (printerState = 0 /\ last' # last /\ last'.status = "idle")
                => printerState' = 0
          /\ (printerState = 2) => (printerState' = 2)]_vars

C17_Witness ==
    /\ last.state0 = 0 /\ last.status = "idle" /\ printerState = 0
    /\ now >= StartTime + 2

(* C18: an iteration that starts with printerState = 0, the one that moves *)
(* to 1 included, leaves frame, zo, timePriorPhoto and alreadyPaused as    *)
(* they were and makes no capture and sends no printer command; captures   *)
(* and printer commands are made only by iterations that start in state 1. *)
C18_AwaitingHasNoEffect ==
    /\ (last.state0 = 0) =>
          /\ frame = last.frame0 /\ zo = last.zo0
          /\ timePriorPhoto = last.tpp0 /\ ~alreadyPaused
          /\ Commands(log) = <<>>
    /\ (last.state0 \in {-1, 0}) =>
          (frame = 0 /\ zo = 0 /\ timePriorPhoto = 0 /\ shots = <<>>)
    /\ (last.state0 = 0) => (files = {})
    /\ (Commands(log) # <<>>) => (last.state0 = 1)

C18_Witness ==
    /\ last.state0 = 0 /\ printerState = 1
    /\ last.status = "processing"
    /\ frame = 0 /\ zo = 0 /\ timePriorPhoto = 0 /\ ~alreadyPaused
    /\ log = <<Call("getStatus", "")>>

(* C19: once an idle status has been polled while printing, printerState   *)
(* is 2, ffmpeg is invoked and the process exits with status 0; and the    *)
(* process never exits with status 0 unless an idle status was polled by   *)
(* an iteration that started in state 1.                                   *)
C19_FinishesAfterIdle ==
    /\ ((last.state0 = 1 /\ last.status = "idle")
            ~> (pc = "exit" /\ exitCode = 0 /\ assembled = 1 /\ printerState = 2))
    /\ [](exitCode = 0 => printerState = 2)
    /\ [][(printerState # 2 /\ printerState' = 2)
            => (last'.state0 = 1 /\ last'.status = "idle")]_vars

(* C20: the iteration that starts in state 1 and polls an idle status      *)
(* still evaluates the layer, interval and pause triggers, sending M25 and *)
(* M24 around a capture when pause = yes, before printerState becomes 2.   *)
C20_TriggersOnFinalTick ==
    (PrintingTick /\ last.status = "idle") =>
        /\ printerState = 2
        /\ (detect = "layer") =>
              /\ zo = last.zn
              /\ ("layer" \in last.fired) <=> (last.zn # last.zo0)
        /\ (detect = "pause") =>
              (("pause" \in last.fired) <=> (last.status2 = "paused"))
        /\ (seconds > 0 /\ last.t1 - last.tpp0 > seconds) => (frame > last.frame0)
        /\ frame = last.frame0 + Cardinality(last.fired)
        /\ (pause = "yes" /\ last.fired # {}) =>
              (CountOf(log, gCode("M25")) = 1 /\ CountOf(log, gCode("M24")) = 1)

====
